---- MODULE Spec2Model ----
(***************************************************************************)
(* Model of post-tags/process-post.py: the TagProcessor class (content     *)
(* extraction, tag generation and parsing, the shared tag pool and tag     *)
(* counter, the progress record, the worker pool of process_files and the  *)
(* three persisted documents), over consecutive invocations of main().     *)
(*                                                                         *)
(* Text is a sequence of characters; a character is a one-element name     *)
(* ("a", ",", "#", " ", or the name of a punctuation mark).  A tag is a    *)
(* text.  A unit identifier f"{file_name}#{index}" is the pair             *)
(* <<file_name, index>>.                                                   *)
(***************************************************************************)
EXTENDS Integers, Sequences, FiniteSets, TLC

\* ------------------------------------------------------------- bounds
\* Worker threads of the pool (max_workers).
NumWorkers == 2
\* Consecutive invocations of main() over the same corpus and output file.
MaxRuns == 2
\* Longest service response of which every text over Alphabet is parsed.
MaxResponseLen == 6
\* Most comma-separated words in the longer responses parsed.
MaxWords == 7
\* Most distinct tags in the stores whose documents are saved on their own.
MaxStoreTags == 11

\* ---------------------------------------------------- program constants
\* tags[:5]
MaxTags == 5
\* len(tag) >= 2
MinTagLen == 2
\* most_common(10)
TopN == 10

\* ------------------------------------------------------------- text
\* str.strip() with no argument strips whitespace.
Whitespace == {" ", "LF"}

\* The argument of tag.strip(...): two adjacent literals, the second one
\* starting after the pair of apostrophes, so the apostrophe is not in it.
Punctuation ==
    {"FW_COMMA", "FULL_STOP", "FW_EXCL", "FW_QUESTION", "FW_SEMICOLON",
     "FW_COLON", "QUOTE", "FW_LPAREN", "FW_RPAREN", "LBLACK", "RBLACK",
     "LDANGLE", "RDANGLE"}

\* Code point of a character: the order sorted() compares strings by.
CodePoint(c) ==
    CASE c = "LF" -> 10
      [] c = " " -> 32
      [] c = "QUOTE" -> 34
      [] c = "#" -> 35
      [] c = "," -> 44
      [] c = "a" -> 97
      [] c = "b" -> 98
      [] c = "c" -> 99
      [] c = "x" -> 120
      [] c = "y" -> 121
      [] c = "FULL_STOP" -> 12290
      [] c = "LDANGLE" -> 12298
      [] c = "RDANGLE" -> 12299
      [] c = "LBLACK" -> 12304
      [] c = "RBLACK" -> 12305
      [] c = "FW_EXCL" -> 65281
      [] c = "FW_LPAREN" -> 65288
      [] c = "FW_RPAREN" -> 65289
      [] c = "FW_COMMA" -> 65292
      [] c = "FW_COLON" -> 65306
      [] c = "FW_SEMICOLON" -> 65307
      [] c = "FW_QUESTION" -> 65311

RECURSIVE LStrip(_, _)
LStrip(s, cs) ==
    IF s # <<>> /\ Head(s) \in cs THEN LStrip(Tail(s), cs) ELSE s

RECURSIVE RStrip(_, _)
RStrip(s, cs) ==
    IF s # <<>> /\ s[Len(s)] \in cs
    THEN RStrip(SubSeq(s, 1, Len(s) - 1), cs)
    ELSE s

\* s.strip(cs)
Strip(s, cs) == RStrip(LStrip(s, cs), cs)

\* First position of character c in s, 0 when absent.
Find(s, c) ==
    IF \E i \in 1..Len(s) : s[i] = c
    THEN CHOOSE i \in 1..Len(s) : s[i] = c /\ \A j \in 1..(i - 1) : s[j] # c
    ELSE 0

\* s.split(sep)
RECURSIVE Split(_, _)
Split(s, sep) ==
    LET i == Find(s, sep)
    IN  IF i = 0
        THEN <<s>>
        ELSE <<SubSeq(s, 1, i - 1)>> \o Split(SubSeq(s, i + 1, Len(s)), sep)

\* re.findall(r'#([^#]+)#', s): the non-overlapping matches, left to right.
RECURSIVE HashtagMatches(_)
HashtagMatches(s) ==
    IF s = <<>> THEN <<>>
    ELSE IF Head(s) # "#" THEN HashtagMatches(Tail(s))
    ELSE LET rest == Tail(s)
             j == Find(rest, "#")
         IN  IF j = 0 THEN <<>>
             ELSE IF j = 1 THEN HashtagMatches(rest)
             ELSE <<SubSeq(rest, 1, j - 1)>>
                    \o HashtagMatches(SubSeq(rest, j + 1, Len(rest)))

\* re.sub(r'#[^#]*#', '', s)
RECURSIVE RemoveHashSpans(_)
RemoveHashSpans(s) ==
    IF s = <<>> THEN <<>>
    ELSE LET rest == Tail(s)
             j == Find(rest, "#")
         IN  IF Head(s) = "#" /\ j > 0
             THEN RemoveHashSpans(SubSeq(rest, j + 1, Len(rest)))
             ELSE <<Head(s)>> \o RemoveHashSpans(rest)

\* The candidates of a segment with the text outside the spans kept in front.
SegmentCandidatesInOrder(segment) ==
    LET tag_part == Strip(segment, Whitespace)
        non_hashtag == Strip(RemoveHashSpans(tag_part), Whitespace)
    IN  IF tag_part = <<>> THEN <<>>
        ELSE IF Find(tag_part, "#") > 0
        THEN (IF non_hashtag # <<>> THEN <<non_hashtag>> ELSE <<>>)
               \o HashtagMatches(tag_part)
        ELSE <<tag_part>>

\* The candidates one comma-separated segment contributes to raw_tags.
SegmentCandidates(segment) ==
    LET tag_part == Strip(segment, Whitespace)
        non_hashtag == Strip(RemoveHashSpans(tag_part), Whitespace)
    IN  IF tag_part = <<>> THEN <<>>
        ELSE IF Find(tag_part, "#") > 0
        THEN HashtagMatches(tag_part)
               \o (IF non_hashtag # <<>> THEN <<non_hashtag>> ELSE <<>>)
        ELSE <<tag_part>>

RECURSIVE RawTags(_)
RawTags(segments) ==
    IF segments = <<>> THEN <<>>
    ELSE SegmentCandidates(Head(segments)) \o RawTags(Tail(segments))

\* The cleaning loop over raw_tags.
RECURSIVE CleanTags(_)
CleanTags(raw_tags) ==
    IF raw_tags = <<>> THEN <<>>
    ELSE LET tag == Strip(Head(raw_tags), Whitespace)
             stripped == Strip(tag, Punctuation)
         IN  (IF Len(tag) >= MinTagLen /\ Len(stripped) >= MinTagLen
              THEN <<stripped>> ELSE <<>>)
               \o CleanTags(Tail(raw_tags))

\* tags[:n]
Prefix(s, n) == SubSeq(s, 1, IF Len(s) < n THEN Len(s) ELSE n)

\* The parsing of a service response into the final tag list.
ParseTags(response) ==
    LET tags_text == Strip(response, Whitespace)
    IN  Prefix(CleanTags(RawTags(Split(tags_text, ","))), MaxTags)

\* a < b for strings, by code point.
RECURSIVE StrLess(_, _)
StrLess(a, b) ==
    IF a = <<>> THEN b # <<>>
    ELSE IF b = <<>> THEN FALSE
    ELSE IF Head(a) = Head(b) THEN StrLess(Tail(a), Tail(b))
    ELSE CodePoint(Head(a)) < CodePoint(Head(b))

\* sorted(list(S)) for a set of strings.
RECURSIVE SortedList(_)
SortedList(S) ==
    IF S = {} THEN <<>>
    ELSE LET m == CHOOSE m \in S : \A o \in S \ {m} : StrLess(m, o)
         IN  <<m>> \o SortedList(S \ {m})

\* list(S) for a set: some order of its elements.
RECURSIVE ListOf(_)
ListOf(S) ==
    IF S = {} THEN <<>>
    ELSE LET e == CHOOSE e \in S : TRUE
         IN  <<e>> \o ListOf(S \ {e})

\* set(list)
SetOf(list) == {list[i] : i \in DOMAIN list}

\* ------------------------------------------------- the aggregation store
\* A Counter is a dict: a sequence of [tag, n] entries in insertion order.
CounterKeys(c) == {c[i].tag : i \in DOMAIN c}

\* counter[t], 0 for a missing key
CounterGet(c, t) ==
    IF t \in CounterKeys(c)
    THEN c[CHOOSE i \in DOMAIN c : c[i].tag = t].n
    ELSE 0

\* counter[t] += 1
CounterIncrement(c, t) ==
    IF t \in CounterKeys(c)
    THEN [i \in DOMAIN c |->
            IF c[i].tag = t THEN [tag |-> t, n |-> c[i].n + 1] ELSE c[i]]
    ELSE Append(c, [tag |-> t, n |-> 1])

\* A counter update that counts each distinct tag of the list once.
RECURSIVE CounterUpdateDistinct(_, _)
CounterUpdateDistinct(c, tags) ==
    IF tags = <<>> THEN c
    ELSE CounterUpdateDistinct(
             IF Head(tags) \in SetOf(Tail(tags))
             THEN c ELSE CounterIncrement(c, Head(tags)),
             Tail(tags))

\* A counter update that assigns the counts of the list: counter = Counter(tags).
RECURSIVE CounterAssign(_, _)
CounterAssign(c, tags) ==
    IF tags = <<>> THEN <<>>
    ELSE CounterIncrement(CounterAssign(c, Tail(tags)), Head(tags))

\* self.tag_counter.update(tags): one increment per element of the list.
RECURSIVE CounterUpdate(_, _)
CounterUpdate(c, tags) ==
    IF tags = <<>> THEN c
    ELSE CounterUpdate(CounterIncrement(c, Head(tags)), Tail(tags))

\* A pool update that assigns: self.tag_pool = set(tags).
PoolAssign(pool, tags) == SetOf(tags)

\* self.tag_pool.update(tags)
PoolUpdate(pool, tags) == pool \cup SetOf(tags)

\* A counter built from the tags of a saved mapping alone, each counted
\* once: Counter(tag_counts.keys()).
RECURSIVE CounterFromKeys(_)
CounterFromKeys(d) ==
    IF d = <<>> THEN <<>>
    ELSE <<[tag |-> Head(d).tag, n |-> 1]>> \o CounterFromKeys(Tail(d))

\* Counter(d) for a dict d read from a document: its entries, in d's order.
RECURSIVE CounterFromDict(_)
CounterFromDict(d) ==
    IF d = <<>> THEN <<>>
    ELSE <<[tag |-> Head(d).tag, n |-> Head(d).n]>>
           \o CounterFromDict(Tail(d))

\* sum(self.tag_counter.values())
RECURSIVE CounterTotal(_)
CounterTotal(c) ==
    IF c = <<>> THEN 0 ELSE Head(c).n + CounterTotal(Tail(c))

\* c without its i-th entry
RemoveAt(c, i) == SubSeq(c, 1, i - 1) \o SubSeq(c, i + 1, Len(c))

\* self.tag_counter.most_common(): a stable sort by descending count.
\* A listing of the counter in insertion order: dict(self.tag_counter)
MostCommonUnsorted(c) == c

RECURSIVE MostCommon(_)
MostCommon(c) ==
    IF c = <<>> THEN <<>>
    ELSE LET i == CHOOSE i \in DOMAIN c :
                    /\ \A j \in DOMAIN c : c[j].n <= c[i].n
                    /\ \A j \in 1..(i - 1) : c[j].n < c[i].n
         IN  <<c[i]>> \o MostCommon(RemoveAt(c, i))

\* ---------------------------------------------------------- documents
\* The disk holds, per document, <<>> when the file does not exist and
\* <<value>> when it does.
NoDoc == <<>>

Doc(value) == <<value>>

\* json.load of a document that exists
Load(doc) == doc[1]

DocNames == {"tags", "stats", "progress"}

\* json.dump(sorted(list(self.tag_pool)), ...)
TagsDocument(pool) == Doc(SortedList(pool))

\* stats_data of save_tags and save_tags_incremental
StatsDocument(pool, counter) ==
    Doc([total_tags |-> Cardinality(pool),
         total_occurrences |-> CounterTotal(counter),
         tag_counts |-> MostCommon(counter),
         top_tags |-> Prefix(MostCommon(counter), TopN)])

\* progress_data of save_state, without the time stamp
ProgressDocument(files, articles) ==
    Doc([processed_files |-> ListOf(files),
         processed_articles |-> ListOf(articles)])

\* ------------------------------------------------------------ corpus
VARIABLE
    data_dir            \* args.data_dir: the directory main() is pointed at

\* main(): args.content_field, default "content"
ContentField == "content"

\* The field names read_article and read_json_articles fall back to.
FallbackFields == <<"content", "text", "body", "description">>

\* The data directories main() may be pointed at.  For each, the files
\* find_article_files returns, sorted by path.  A .json file holds a JSON
\* value: [type |-> "array", items |-> ...] or [type |-> "object", fields |->
\* ...]; an element of an array is [type |-> "object", fields |-> a record of
\* texts] or a value of another type.
DataFiles ==
    << [path |-> "data/a.txt", name |-> "a.txt", ext |-> ".txt",
        data |-> <<"x", "LF">>],
       [path |-> "data/d1/p.json", name |-> "p.json", ext |-> ".json",
        data |-> [type |-> "array", items |->
                    << [type |-> "object", fields |-> [content |-> <<"x">>]],
                       [type |-> "object", fields |-> [title |-> <<"y">>]],
                       [type |-> "object", fields |-> [content |-> <<"x", " ">>]],
                       [type |-> "object", fields |-> [content |-> <<" ">>,
                                                       text |-> <<"x">>]],
                       [type |-> "string"] >>]],
       [path |-> "data/d2/p.json", name |-> "p.json", ext |-> ".json",
        data |-> [type |-> "array", items |->
                    << [type |-> "object", fields |-> [text |-> <<" ", "x">>]] >>]] >>

EdgeFiles ==
    << [path |-> "edge/e.txt", name |-> "e.txt", ext |-> ".txt",
        data |-> <<" ", "LF">>],
       [path |-> "edge/n.json", name |-> "n.json", ext |-> ".json",
        data |-> [type |-> "array", items |->
                    << [type |-> "object", fields |-> [title |-> <<"y">>]],
                       [type |-> "object", fields |-> [body |-> <<"LF">>]] >>]],
       [path |-> "edge/o.json", name |-> "o.json", ext |-> ".json",
        data |-> [type |-> "object", fields |-> [text |-> <<"x">>]]] >>

Corpora == [data |-> DataFiles, edge |-> EdgeFiles]

\* article_files of this invocation: find_article_files(args.data_dir)
Corpus == Corpora[data_dir]

FileIds == DOMAIN Corpus

\* The content field an object resolves to: content_field when present, else
\* the first fallback name present, else "" (none).
ResolveField(fields, content_field) ==
    IF content_field # "" /\ content_field \in DOMAIN fields
    THEN content_field
    ELSE IF \E k \in DOMAIN FallbackFields : FallbackFields[k] \in DOMAIN fields
    THEN FallbackFields[CHOOSE k \in DOMAIN FallbackFields :
            /\ FallbackFields[k] \in DOMAIN fields
            /\ \A j \in 1..(k - 1) : FallbackFields[j] \notin DOMAIN fields]
    ELSE ""

\* An extraction loop that numbers the articles by their position in the
\* list it builds: 'index': len(articles).
RECURSIVE ExtractArticlesRenumbered(_, _, _)
ExtractArticlesRenumbered(items, i, content_field) ==
    LET text(j) ==
            LET field == IF items[j].type = "object"
                         THEN ResolveField(items[j].fields, content_field)
                         ELSE ""
            IN  IF field = "" THEN <<>>
                ELSE Strip(items[j].fields[field], Whitespace)
    IN  IF i > Len(items) THEN <<>>
        ELSE (IF text(i) # <<>>
              THEN << [index |-> Cardinality({j \in 1..(i - 1) :
                                                text(j) # <<>>}),
                       content |-> text(i)] >>
              ELSE <<>>)
               \o ExtractArticlesRenumbered(items, i + 1, content_field)

\* The loop of read_json_articles over the elements from position i on.
RECURSIVE ExtractArticles(_, _, _)
ExtractArticles(items, i, content_field) ==
    IF i > Len(items) THEN <<>>
    ELSE LET item == items[i]
             field == IF item.type = "object"
                      THEN ResolveField(item.fields, content_field)
                      ELSE ""
             content == IF field = "" THEN <<>>
                        ELSE Strip(item.fields[field], Whitespace)
         IN  (IF content # <<>>
              THEN << [index |-> i - 1, content |-> content] >>
              ELSE <<>>)
               \o ExtractArticles(items, i + 1, content_field)

\* read_json_articles(file_path, content_field)
ReadJsonArticles(file, content_field) ==
    IF file.data.type # "array" THEN <<>>
    ELSE ExtractArticles(file.data.items, 1, content_field)

\* read_article(file_path, content_field)
ReadArticle(file, content_field) ==
    IF file.ext = ".json"
    THEN IF file.data.type = "object"
              /\ ResolveField(file.data.fields, content_field) # ""
         THEN Strip(file.data.fields[ResolveField(file.data.fields,
                                                  content_field)], Whitespace)
         ELSE <<>>
    ELSE Strip(file.data, Whitespace)

\* article_id = f"{file_name}#{article['index']}"
ArticleId(file_name, index) == <<file_name, index>>

\* ------------------------------------------------ the generation service
\* What one call of client.chat.completions.create does: it returns a
\* response text, or raises an exception of one of the classes caught.
FailureKinds == {"APIError", "RateLimitError", "AuthenticationError", "Exception"}

Responses ==
    { <<"a", "a", ",", " ", "a", "a">>,
      <<"a", "a", ",", "#", "b", "b", "#">>,
      <<"c">> }

Outcomes ==
    [kind : {"ok"}, text : Responses] \cup [kind : FailureKinds, text : {<<>>}]

\* No request was sent.
NoOutcome == [kind |-> "none", text |-> <<>>]

\* generate_tags without its last `except Exception` clause.
GenerateTagsUncaught(content, outcome) ==
    IF content = <<>> THEN [raised |-> FALSE, tags |-> <<>>]
    ELSE IF outcome.kind = "ok"
    THEN [raised |-> FALSE, tags |-> ParseTags(outcome.text)]
    ELSE [raised |-> outcome.kind = "Exception", tags |-> <<>>]

\* generate_tags(content), given what the service call does: the tag list
\* returned, and whether an exception leaves the function.
GenerateTags(content, outcome) ==
    IF content = <<>> THEN [raised |-> FALSE, tags |-> <<>>]
    ELSE IF outcome.kind = "ok"
    THEN [raised |-> FALSE, tags |-> ParseTags(outcome.text)]
    ELSE [raised |-> FALSE, tags |-> <<>>]


\* --------------------------------------------------------------- state
VARIABLES
    max_workers,        \* args.workers: the threads of the executor
    phase,              \* where main() is: "init", "loaded", "running",
                        \* "returned", "tags_saved", "done"
    run,                \* number of this invocation of main()
    incremental_save,   \* args.incremental_save of this invocation
    tag_pool,           \* self.tag_pool
    tag_counter,        \* self.tag_counter
    tag_lock,           \* self.tag_lock: 0 when free, else the task holding it
    processed_files,    \* self.processed_files
    processed_articles, \* self.processed_articles
    disk,               \* the three documents keyed off output_file
    queue,              \* the executor's work queue: submitted, not yet started
    futures,            \* future_to_file: the state and result of each task
    results,            \* the results list of process_files
    task,               \* per file, the locals of its process_single_file call
    calls,              \* service calls made in this run
    loaded,             \* the documents load_state found at start of this run
    start_store,        \* tag pool and counter when process_files was called
    merge_base,         \* tag pool and counter when tag_lock was last acquired
    gen_log             \* per content, the tag list generate_tags returned
                        \* for it so far, across the runs

vars ==
    <<data_dir, max_workers, phase, run, incremental_save, tag_pool,
      tag_counter, tag_lock, processed_files, processed_articles, disk,
      queue, futures, results, task, calls, loaded, start_store, merge_base,
      gen_log>>

\* The stripped contents of the corpus.
Contents == {<<"x">>}

NoStore == [pool |-> {}, counter |-> <<>>]

NoTask ==
    [pc |-> "off", articles |-> <<>>, i |-> 0, results |-> <<>>,
     content |-> <<>>, svc |-> NoOutcome, tags |-> <<>>, unit_calls |-> 0,
     old_size |-> 0, added_tags |-> 0]

NoFuture == [st |-> "none", result |-> [status |-> "none"]]

\* TagProcessor.__init__ in a fresh process, before load_state.
Fresh(n, inc) ==
    /\ phase' = "init"
    /\ run' = n
    /\ incremental_save' = inc
    /\ tag_pool' = {}
    /\ tag_counter' = <<>>
    /\ tag_lock' = 0
    /\ processed_files' = {}
    /\ processed_articles' = {}
    /\ queue' = <<>>
    /\ futures' = [f \in FileIds |-> NoFuture]
    /\ results' = <<>>
    /\ task' = [f \in FileIds |-> NoTask]
    /\ calls' = 0
    /\ loaded' = [d \in DocNames |-> NoDoc]
    /\ start_store' = NoStore
    /\ merge_base' = NoStore

Init ==
    /\ data_dir \in DOMAIN Corpora
    /\ max_workers = NumWorkers
    /\ phase = "init"
    /\ run = 1
    /\ incremental_save \in BOOLEAN
    /\ tag_pool = {}
    /\ tag_counter = <<>>
    /\ tag_lock = 0
    /\ processed_files = {}
    /\ processed_articles = {}
    /\ disk = [d \in DocNames |-> NoDoc]
    /\ queue = <<>>
    /\ futures = [f \in FileIds |-> NoFuture]
    /\ results = <<>>
    /\ task = [f \in FileIds |-> NoTask]
    /\ calls = 0
    /\ loaded = [d \in DocNames |-> NoDoc]
    /\ start_store = NoStore
    /\ merge_base = NoStore
    /\ gen_log = [c \in Contents |-> [seen |-> "no", tags |-> <<>>]]

\* ------------------------------------------------------------ main()
\* Between two invocations a document may be missing from the disk: the
\* os.path.exists tests of load_state treat each document on its own.
RemoveDocument(d) ==
    /\ phase = "init"
    /\ disk[d] # NoDoc
    /\ disk' = [disk EXCEPT ![d] = NoDoc]
    /\ UNCHANGED <<data_dir, max_workers, phase, run, incremental_save,
                   tag_pool, tag_counter, tag_lock, processed_files,
                   processed_articles, queue, futures, results, task, calls,
                   loaded, start_store, merge_base, gen_log>>

\* load_state(output_file)
LoadState ==
    /\ phase = "init"
    /\ phase' = "loaded"
    /\ tag_pool' = IF disk.tags # NoDoc
                   THEN SetOf(Load(disk.tags))
                   ELSE tag_pool
    /\ tag_counter' = IF disk.stats # NoDoc
                      THEN CounterFromDict(Load(disk.stats).tag_counts)
                      ELSE tag_counter
    /\ processed_files' = IF disk.progress # NoDoc
                          THEN SetOf(Load(disk.progress).processed_files)
                          ELSE processed_files
    /\ processed_articles' = IF disk.progress # NoDoc
                             THEN SetOf(Load(disk.progress).processed_articles)
                             ELSE processed_articles
    /\ loaded' = disk
    /\ UNCHANGED <<data_dir, max_workers, run, incremental_save, tag_lock,
                   disk, queue, futures, results, task, calls, start_store,
                   merge_base, gen_log>>

\* process_files: every file is submitted to the executor.
ProcessFilesStart ==
    /\ phase = "loaded"
    /\ phase' = "running"
    /\ queue' = [k \in 1..Len(Corpus) |-> k]
    /\ futures' = [f \in FileIds |-> [NoFuture EXCEPT !.st = "pending"]]
    /\ results' = <<>>
    /\ start_store' = [pool |-> tag_pool, counter |-> tag_counter]
    /\ UNCHANGED <<data_dir, max_workers, run, incremental_save, tag_pool,
                   tag_counter, tag_lock, processed_files, processed_articles,
                   disk, task, calls, loaded, merge_base, gen_log>>

\* process_files returns once every future has completed and its result has
\* been appended to results.
ProcessFilesReturn ==
    /\ phase = "running"
    /\ \A f \in FileIds : futures[f].st \in {"finished", "raised"}
    /\ phase' = "returned"
    /\ UNCHANGED <<data_dir, max_workers, run, incremental_save, tag_pool,
                   tag_counter, tag_lock, processed_files, processed_articles,
                   disk, queue, futures, results, task, calls, loaded,
                   start_store, merge_base, gen_log>>

\* save_tags(output_file) and save_tags_incremental(output_file) write the
\* same two documents.
SavedTags(d) ==
    [d EXCEPT !.tags = TagsDocument(tag_pool),
              !.stats = StatsDocument(tag_pool, tag_counter)]

\* save_state(output_file)
SavedState(d) ==
    [d EXCEPT !.progress = ProgressDocument(processed_files,
                                            processed_articles)]

SaveTags ==
    /\ phase = "returned"
    /\ phase' = "tags_saved"
    /\ disk' = SavedTags(disk)
    /\ UNCHANGED <<data_dir, max_workers, run, incremental_save, tag_pool,
                   tag_counter, tag_lock, processed_files, processed_articles,
                   queue, futures, results, task, calls, loaded, start_store,
                   merge_base, gen_log>>

SaveState ==
    /\ phase = "tags_saved"
    /\ phase' = "done"
    /\ disk' = SavedState(disk)
    /\ UNCHANGED <<data_dir, max_workers, run, incremental_save, tag_pool,
                   tag_counter, tag_lock, processed_files, processed_articles,
                   queue, futures, results, task, calls, loaded, start_store,
                   merge_base, gen_log>>

\* The next invocation of main(): a new process, the disk as it was left.
NextRun ==
    /\ phase = "done"
    /\ run < MaxRuns
    /\ \E inc \in BOOLEAN : Fresh(run + 1, inc)
    /\ UNCHANGED <<data_dir, max_workers, disk, gen_log>>

\* ------------------------------------------------- the worker threads
\* The tasks a worker thread is running.
Running == {f \in FileIds : futures[f].st = "running"}

\* The executor starts the next submitted task when one of its max_workers
\* threads is free.  Which thread runs a task changes nothing: the model
\* keeps the tasks, not the threads.
TakeTask(f) ==
    /\ phase = "running"
    /\ queue # <<>>
    /\ f = Head(queue)
    /\ Cardinality(Running) < max_workers
    /\ queue' = Tail(queue)
    /\ futures' = [futures EXCEPT ![f].st = "running"]
    /\ task' = [task EXCEPT ![f] = [NoTask EXCEPT !.pc = "file_check"]]
    /\ UNCHANGED <<data_dir, max_workers, phase, run, incremental_save,
                   tag_pool, tag_counter, tag_lock, processed_files,
                   processed_articles, disk, results, calls, loaded,
                   start_store, merge_base, gen_log>>

\* Task f returns `result`: its future completes, and the loop over
\* as_completed appends the result to results.  The loop runs in the main
\* thread and touches nothing a worker reads, so the model runs its body at
\* the moment the future completes.
Return(f, result) ==
    /\ futures' = [futures EXCEPT ![f] = [st |-> "finished", result |-> result]]
    /\ results' = Append(results, result)
    /\ task' = [task EXCEPT ![f] = NoTask]

\* A task's exception that the loop over as_completed lets go: no result is
\* appended for the file.
RaiseUncollected(f, error) ==
    /\ futures' = [futures EXCEPT ![f] =
                      [st |-> "raised",
                       result |-> [file |-> "unknown", status |-> "failed",
                                   reason |-> error]]]
    /\ results' = results
    /\ task' = [task EXCEPT ![f] = NoTask]

\* Task f ends with an exception: future.result() raises in the loop over
\* as_completed, which appends a failed result of file "unknown".
Raise(f, error) ==
    LET result == [file |-> "unknown", status |-> "failed", reason |-> error]
    IN  /\ futures' = [futures EXCEPT ![f] = [st |-> "raised", result |-> result]]
        /\ results' = Append(results, result)
        /\ task' = [task EXCEPT ![f] = NoTask]

\* `if file_path in self.processed_files`, under file_lock
FileProcessed(file_path) == file_path \in processed_files

\* process_single_file: the check of processed_files.
FileCheck(f) ==
    /\ task[f].pc = "file_check"
    /\ IF FileProcessed(Corpus[f].path)
       THEN Return(f, [file |-> Corpus[f].name, status |-> "skipped",
                       reason |-> "already_processed"])
       ELSE /\ task' = [task EXCEPT ![f].pc = "read"]
            /\ UNCHANGED <<futures, results>>
    /\ UNCHANGED <<data_dir, max_workers, phase, run, incremental_save,
                   tag_pool, tag_counter, tag_lock, processed_files,
                   processed_articles, disk, queue, calls, loaded, start_store,
                   merge_base, gen_log>>

\* process_single_file: the file is read, as a JSON array or as one text.
ReadFile(f) ==
    LET file == Corpus[f]
        articles == ReadJsonArticles(file, ContentField)
        content == ReadArticle(file, ContentField)
    IN  /\ task[f].pc = "read"
        /\ IF file.ext = ".json"
           THEN IF articles = <<>>
                THEN Return(f, [file |-> file.name, status |-> "failed",
                                reason |-> "no_valid_articles"])
                ELSE /\ task' = [task EXCEPT ![f].pc = "art_check",
                                             ![f].articles = articles,
                                             ![f].i = 1]
                     /\ UNCHANGED <<futures, results>>
           ELSE IF content = <<>>
                THEN Return(f, [file |-> file.name, status |-> "failed",
                                reason |-> "empty_content"])
                ELSE /\ task' = [task EXCEPT ![f].pc = "txt_call",
                                             ![f].content = content]
                     /\ UNCHANGED <<futures, results>>
        /\ UNCHANGED <<data_dir, max_workers, phase, run, incremental_save,
                       tag_pool, tag_counter, tag_lock, processed_files,
                       processed_articles, disk, queue, calls, loaded,
                       start_store, merge_base, gen_log>>

\* The article task f is at, and its identifier.
CurrentArticle(f) == task[f].articles[task[f].i]

CurrentId(f) == ArticleId(Corpus[f].name, CurrentArticle(f).index)

\* process_single_article without its check of processed_articles.
ArticleNeverProcessed(article_id) == FALSE

\* `if article_id in self.processed_articles`
ArticleProcessed(article_id) == article_id \in processed_articles

\* A loop over the articles that keeps no result of a failed unit.
NextArticleUnrecorded(f, r) ==
    [task[f] EXCEPT !.results = IF r.status = "failed" THEN @
                                ELSE Append(@, r),
                    !.i = @ + 1,
                    !.pc = IF task[f].i < Len(task[f].articles)
                           THEN "art_check" ELSE "file_finish",
                    !.content = <<>>, !.svc = NoOutcome, !.tags = <<>>,
                    !.unit_calls = 0, !.old_size = 0, !.added_tags = 0]

\* The locals of task f once a unit's result r is appended to its results:
\* the loop of process_single_file goes to the next article, or ends.
NextArticle(f, r) ==
    [task[f] EXCEPT !.results = Append(@, r),
                    !.i = @ + 1,
                    !.pc = IF task[f].i < Len(task[f].articles)
                           THEN "art_check" ELSE "file_finish",
                    !.content = <<>>, !.svc = NoOutcome, !.tags = <<>>,
                    !.unit_calls = 0, !.old_size = 0, !.added_tags = 0]

\* process_single_article: the check of processed_articles and of the content.
ArticleCheck(f) ==
    /\ task[f].pc = "art_check"
    /\ IF ArticleProcessed(CurrentId(f))
       THEN task' = [task EXCEPT ![f] = NextArticle(f,
                         [article |-> CurrentId(f), status |-> "skipped",
                          reason |-> "already_processed"])]
       ELSE IF CurrentArticle(f).content = <<>>
       THEN task' = [task EXCEPT ![f] = NextArticle(f,
                         [article |-> CurrentId(f), status |-> "failed",
                          reason |-> "empty_content"])]
       ELSE task' = [task EXCEPT ![f].pc = "art_call",
                                 ![f].content = CurrentArticle(f).content]
    /\ UNCHANGED <<data_dir, max_workers, phase, run, incremental_save,
                   tag_pool, tag_counter, tag_lock, processed_files,
                   processed_articles, disk, queue, futures, results, calls,
                   loaded, start_store, merge_base, gen_log>>

\* generate_tags: the one request to the service, which answers or raises.
\* Nothing is sent for an empty content.
ServiceCall(f, outcome, next_pc) ==
    IF task[f].content = <<>>
    THEN /\ task' = [task EXCEPT ![f].svc = NoOutcome, ![f].pc = next_pc]
         /\ UNCHANGED calls
    ELSE /\ task' = [task EXCEPT ![f].svc = outcome, ![f].unit_calls = @ + 1,
                                 ![f].pc = next_pc]
         /\ calls' = calls + 1

\* What gen_log keeps of a tag list returned for a content.
Logged(content, tags) ==
    [gen_log EXCEPT ![content] =
        IF @.seen = "no" \/ (@.seen = "same" /\ @.tags = tags)
        THEN [seen |-> "same", tags |-> tags]
        ELSE [seen |-> "varied", tags |-> <<>>]]

\* process_single_article: generate_tags(content) sends its request.
ArticleCall(f) ==
    /\ task[f].pc = "art_call"
    /\ \E outcome \in Outcomes : ServiceCall(f, outcome, "art_generate")
    /\ UNCHANGED <<data_dir, max_workers, phase, run, incremental_save,
                   tag_pool, tag_counter, tag_lock, processed_files,
                   processed_articles, disk, queue, futures, results, loaded,
                   start_store, merge_base, gen_log>>

\* process_single_article: generate_tags returns, and `if not tags`.
ArticleGenerate(f) ==
    LET g == GenerateTags(task[f].content, task[f].svc)
    IN  /\ task[f].pc = "art_generate"
        /\ IF g.raised
           THEN Raise(f, task[f].svc.kind)
           ELSE /\ IF g.tags = <<>>
                   THEN task' = [task EXCEPT ![f] = NextArticle(f,
                                     [article |-> CurrentId(f),
                                      status |-> "failed",
                                      reason |-> "no_tags_generated"])]
                   ELSE task' = [task EXCEPT ![f].pc = "art_lock",
                                             ![f].tags = g.tags]
                /\ UNCHANGED <<futures, results>>
        /\ gen_log' = Logged(task[f].content, g.tags)
        /\ UNCHANGED <<data_dir, max_workers, phase, run, incremental_save,
                       tag_pool, tag_counter, tag_lock, processed_files,
                       processed_articles, disk, queue, calls, loaded,
                       start_store, merge_base>>

\* A merge section entered without waiting for the lock.
LockIgnored == TRUE

\* `with self.tag_lock` can be entered.
LockFree == tag_lock = 0

\* `with self.tag_lock:` is entered, and old_size is read.
AcquireTagLock(f, next_pc) ==
    /\ LockFree
    /\ tag_lock' = f
    /\ merge_base' = [pool |-> tag_pool, counter |-> tag_counter]
    /\ task' = [task EXCEPT ![f].pc = next_pc,
                            ![f].old_size = Cardinality(tag_pool)]

\* self.tag_pool.update(tags)
UpdatePool(f, next_pc) ==
    /\ tag_pool' = PoolUpdate(tag_pool, task[f].tags)
    /\ task' = [task EXCEPT ![f].pc = next_pc]

\* self.tag_counter.update(tags); new_size; added_tags
UpdateCounter(f, next_pc) ==
    /\ tag_counter' = CounterUpdate(tag_counter, task[f].tags)
    /\ task' = [task EXCEPT
                   ![f].pc = next_pc,
                   ![f].added_tags = Cardinality(tag_pool) - task[f].old_size]

\* The end of the `with self.tag_lock` block.
ReleaseTagLock ==
    /\ tag_lock' = 0
    /\ merge_base' = NoStore

ArticleLock(f) ==
    /\ task[f].pc = "art_lock"
    /\ AcquireTagLock(f, "art_pool")
    /\ UNCHANGED <<data_dir, max_workers, phase, run, incremental_save,
                   tag_pool, tag_counter, processed_files, processed_articles,
                   disk, queue, futures, results, calls, loaded, start_store,
                   gen_log>>

ArticlePool(f) ==
    /\ task[f].pc = "art_pool"
    /\ UpdatePool(f, "art_count")
    /\ UNCHANGED <<data_dir, max_workers, phase, run, incremental_save,
                   tag_counter, tag_lock, processed_files, processed_articles,
                   disk, queue, futures, results, calls, loaded, start_store,
                   merge_base, gen_log>>

ArticleCount(f) ==
    /\ task[f].pc = "art_count"
    /\ UpdateCounter(f, "art_save")
    /\ UNCHANGED <<data_dir, max_workers, phase, run, incremental_save,
                   tag_pool, tag_lock, processed_files, processed_articles,
                   disk, queue, futures, results, calls, loaded, start_store,
                   merge_base, gen_log>>

\* `if output_file and incremental_save`: main() always gives output_file.
SaveAfterUnit == incremental_save

\* process_single_article: the incremental save, then the lock is released.
ArticleSave(f) ==
    /\ task[f].pc = "art_save"
    /\ disk' = IF SaveAfterUnit THEN SavedState(SavedTags(disk)) ELSE disk
    /\ ReleaseTagLock
    /\ task' = [task EXCEPT ![f].pc = "art_mark"]
    /\ UNCHANGED <<data_dir, max_workers, phase, run, incremental_save,
                   tag_pool, tag_counter, processed_files, processed_articles,
                   queue, futures, results, calls, loaded, start_store,
                   gen_log>>

\* process_single_article: the identifier is recorded, success is returned.
ArticleMark(f) ==
    /\ task[f].pc = "art_mark"
    /\ processed_articles' = processed_articles \cup {CurrentId(f)}
    /\ task' = [task EXCEPT ![f] = NextArticle(f,
                      [article |-> CurrentId(f), status |-> "success",
                       tags |-> task[f].tags,
                       content_length |-> Len(task[f].content)])]
    /\ UNCHANGED <<data_dir, max_workers, phase, run, incremental_save,
                   tag_pool, tag_counter, tag_lock, processed_files, disk,
                   queue, futures, results, calls, loaded, start_store,
                   merge_base, gen_log>>

\* sum(1 for r in results if r["status"] == status)
RECURSIVE CountStatus(_, _)
CountStatus(rs, status) ==
    IF rs = <<>> THEN 0
    ELSE (IF Head(rs).status = status THEN 1 ELSE 0)
           + CountStatus(Tail(rs), status)

\* A file status that is failed when none of the units succeeded.
FileStatusByUnits(rs) ==
    IF CountStatus(rs, "success") = 0 THEN "failed" ELSE "success"

\* The status of a JSON-array file whose units have the results rs.
FileStatus(rs) == "success"

\* process_single_file: the file is recorded, the counts are returned.
FileFinish(f) ==
    /\ task[f].pc = "file_finish"
    /\ processed_files' = processed_files \cup {Corpus[f].path}
    /\ Return(f, [file |-> Corpus[f].name,
                  status |-> FileStatus(task[f].results),
                  articles_processed |-> Len(task[f].articles),
                  articles_success |-> CountStatus(task[f].results, "success"),
                  articles_failed |-> CountStatus(task[f].results, "failed"),
                  articles_skipped |-> CountStatus(task[f].results, "skipped"),
                  results |-> task[f].results])
    /\ UNCHANGED <<data_dir, max_workers, phase, run, incremental_save,
                   tag_pool, tag_counter, tag_lock, processed_articles, disk,
                   queue, calls, loaded, start_store, merge_base, gen_log>>

\* process_single_file, a text file: generate_tags(content) sends its request.
TextCall(f) ==
    /\ task[f].pc = "txt_call"
    /\ \E outcome \in Outcomes : ServiceCall(f, outcome, "txt_generate")
    /\ UNCHANGED <<data_dir, max_workers, phase, run, incremental_save,
                   tag_pool, tag_counter, tag_lock, processed_files,
                   processed_articles, disk, queue, futures, results, loaded,
                   start_store, merge_base, gen_log>>

\* process_single_file, a text file: generate_tags returns, and `if not tags`.
TextGenerate(f) ==
    LET g == GenerateTags(task[f].content, task[f].svc)
    IN  /\ task[f].pc = "txt_generate"
        /\ IF g.raised
           THEN Raise(f, task[f].svc.kind)
           ELSE IF g.tags = <<>>
           THEN Return(f, [file |-> Corpus[f].name, status |-> "failed",
                           reason |-> "no_tags_generated"])
           ELSE /\ task' = [task EXCEPT ![f].pc = "txt_lock",
                                        ![f].tags = g.tags]
                /\ UNCHANGED <<futures, results>>
        /\ gen_log' = Logged(task[f].content, g.tags)
        /\ UNCHANGED <<data_dir, max_workers, phase, run, incremental_save,
                       tag_pool, tag_counter, tag_lock, processed_files,
                       processed_articles, disk, queue, calls, loaded,
                       start_store, merge_base>>

TextLock(f) ==
    /\ task[f].pc = "txt_lock"
    /\ AcquireTagLock(f, "txt_pool")
    /\ UNCHANGED <<data_dir, max_workers, phase, run, incremental_save,
                   tag_pool, tag_counter, processed_files, processed_articles,
                   disk, queue, futures, results, calls, loaded, start_store,
                   gen_log>>

TextPool(f) ==
    /\ task[f].pc = "txt_pool"
    /\ UpdatePool(f, "txt_count")
    /\ UNCHANGED <<data_dir, max_workers, phase, run, incremental_save,
                   tag_counter, tag_lock, processed_files, processed_articles,
                   disk, queue, futures, results, calls, loaded, start_store,
                   merge_base, gen_log>>

TextCount(f) ==
    /\ task[f].pc = "txt_count"
    /\ UpdateCounter(f, "txt_return")
    /\ UNCHANGED <<data_dir, max_workers, phase, run, incremental_save,
                   tag_pool, tag_lock, processed_files, processed_articles,
                   disk, queue, futures, results, calls, loaded, start_store,
                   merge_base, gen_log>>

\* process_single_file, a text file: the lock is released, success is
\* returned.
TextReturn(f) ==
    /\ task[f].pc = "txt_return"
    /\ ReleaseTagLock
    /\ Return(f, [file |-> Corpus[f].name, status |-> "success",
                  tags |-> task[f].tags,
                  content_length |-> Len(task[f].content)])
    /\ UNCHANGED <<data_dir, max_workers, phase, run, incremental_save,
                   tag_pool, tag_counter, processed_files, processed_articles,
                   disk, queue, calls, loaded, start_store, gen_log>>

\* ------------------------------------------------------- specification
Next ==
    \/ \E d \in DocNames : RemoveDocument(d)
    \/ LoadState
    \/ ProcessFilesStart
    \/ \E f \in FileIds : TakeTask(f)
    \/ \E f \in FileIds : FileCheck(f)
    \/ \E f \in FileIds : ReadFile(f)
    \/ \E f \in FileIds : ArticleCheck(f)
    \/ \E f \in FileIds : ArticleCall(f)
    \/ \E f \in FileIds : ArticleGenerate(f)
    \/ \E f \in FileIds : ArticleLock(f)
    \/ \E f \in FileIds : ArticlePool(f)
    \/ \E f \in FileIds : ArticleCount(f)
    \/ \E f \in FileIds : ArticleSave(f)
    \/ \E f \in FileIds : ArticleMark(f)
    \/ \E f \in FileIds : FileFinish(f)
    \/ \E f \in FileIds : TextCall(f)
    \/ \E f \in FileIds : TextGenerate(f)
    \/ \E f \in FileIds : TextLock(f)
    \/ \E f \in FileIds : TextPool(f)
    \/ \E f \in FileIds : TextCount(f)
    \/ \E f \in FileIds : TextReturn(f)
    \/ ProcessFilesReturn
    \/ SaveTags
    \/ SaveState
    \/ NextRun

Spec == Init /\ [][Next]_vars

\* ------------------------------------ process_files as one run
\* The first .json file of the corpus.
FirstJson ==
    CHOOSE f \in FileIds :
        /\ Corpus[f].ext = ".json"
        /\ \A g \in FileIds : Corpus[g].ext = ".json" => f <= g

\* The progress records load_state may have restored before process_files is
\* called: none, or one with the path of a .json file, the identifier of its
\* element 0, or both.
ProgressStates ==
    { [files |-> fs, articles |-> as] :
        fs \in {{}, {Corpus[FirstJson].path}},
        as \in {{}, {ArticleId(Corpus[FirstJson].name, 0)}} }

\* main() has called load_state and is about to call process_files with
\* args.workers threads.
RunInit ==
    /\ data_dir \in DOMAIN Corpora
    /\ max_workers \in 1..NumWorkers
    /\ phase = "loaded"
    /\ run = 1
    /\ incremental_save \in BOOLEAN
    /\ tag_pool = {}
    /\ tag_counter = <<>>
    /\ tag_lock = 0
    /\ \E p \in ProgressStates :
          /\ processed_files = p.files
          /\ processed_articles = p.articles
          /\ disk = [d \in DocNames |->
                       IF d = "progress" /\ p.files \cup p.articles # {}
                       THEN ProgressDocument(p.files, p.articles)
                       ELSE NoDoc]
    /\ loaded = disk
    /\ queue = <<>>
    /\ futures = [f \in FileIds |-> NoFuture]
    /\ results = <<>>
    /\ task = [f \in FileIds |-> NoTask]
    /\ calls = 0
    /\ start_store = NoStore
    /\ merge_base = NoStore
    /\ gen_log = [c \in Contents |-> [seen |-> "no", tags |-> <<>>]]

\* An exception escapes process_single_file in task f, at any point of it
\* (MemoryError, say): a `with self.tag_lock` block the task is in releases
\* the lock, and future.result() raises in the loop over as_completed.
TaskFault(f) ==
    /\ phase = "running"
    /\ futures[f].st = "running"
    /\ Raise(f, "MemoryError")
    /\ IF tag_lock = f
       THEN ReleaseTagLock
       ELSE UNCHANGED <<tag_lock, merge_base>>
    /\ UNCHANGED <<data_dir, max_workers, phase, run, incremental_save,
                   tag_pool, tag_counter, processed_files,
                   processed_articles, disk, queue, calls, loaded,
                   start_store, gen_log>>

\* The steps of process_files and of its worker threads, but for the return
\* of a service call.
RunLocal ==
    \/ ProcessFilesStart
    \/ \E f \in FileIds : TakeTask(f)
    \/ \E f \in FileIds : FileCheck(f)
    \/ \E f \in FileIds : ReadFile(f)
    \/ \E f \in FileIds : ArticleCheck(f)
    \/ \E f \in FileIds : ArticleCall(f)
    \/ \E f \in FileIds : ArticleLock(f)
    \/ \E f \in FileIds : ArticlePool(f)
    \/ \E f \in FileIds : ArticleCount(f)
    \/ \E f \in FileIds : ArticleSave(f)
    \/ \E f \in FileIds : ArticleMark(f)
    \/ \E f \in FileIds : FileFinish(f)
    \/ \E f \in FileIds : TextCall(f)
    \/ \E f \in FileIds : TextLock(f)
    \/ \E f \in FileIds : TextPool(f)
    \/ \E f \in FileIds : TextCount(f)
    \/ \E f \in FileIds : TextReturn(f)
    \/ ProcessFilesReturn

\* generate_tags returns in some task: the service has answered or raised.
RunService ==
    \/ \E f \in FileIds : ArticleGenerate(f)
    \/ \E f \in FileIds : TextGenerate(f)

\* A step of the run, or a fault in one of its tasks.
RunNext ==
    \/ RunLocal
    \/ RunService
    \/ \E f \in FileIds : TaskFault(f)

\* The file positions of all corpora.
AllFileIds == UNION { DOMAIN Corpora[d] : d \in DOMAIN Corpora }

\* Task f is inside generate_tags, waiting for the service.
InService(f) ==
    /\ f \in FileIds
    /\ task[f].pc \in {"art_generate", "txt_generate"}

\* Every service call returns or raises in the end: no task stays inside
\* generate_tags for ever.
ServiceReturns == \A f \in AllFileIds : []<>(~InService(f))

\* One call of process_files.  The executor's threads keep running, so a
\* local step that can be taken is taken in the end, and every service call
\* returns or raises; no fault is ever bound to happen.
RunSpec ==
    RunInit /\ [][RunNext]_vars /\ WF_vars(RunLocal) /\ ServiceReturns

\* ------------------------------------ generate_tags as a function
\* The characters of the service responses parsed.
Alphabet == {"a", "b", "#", ",", " ", "FULL_STOP"}

\* Every text over Alphabet up to MaxResponseLen characters.
ShortResponses == UNION { [1..n -> Alphabet] : n \in 0..MaxResponseLen }

\* ", ".join(words)
RECURSIVE Join(_)
Join(words) ==
    IF words = <<>> THEN <<>>
    ELSE IF Len(words) = 1 THEN Head(words)
    ELSE Head(words) \o <<",", " ">> \o Join(Tail(words))

\* The words the longer responses are made of.
Words == { <<"a", "b">>, <<"b", "a">>, <<"a">> }

\* Responses of up to MaxWords words separated by ", ".
LongResponses == { Join(ws) : ws \in UNION { [1..n -> Words] : n \in 1..MaxWords } }

\* Responses with a '#'-enclosed span after other text, as the service
\* returns them when it mixes the two formats.
MixedResponses ==
    { <<"x", "y", "#", "b", "b", "#", ",", " ", "a", "b">>,
      <<"a", ",", " ", "b", "b", ",", " ", "c">>,
      <<"a", "b", "#", "b", "a", "#", "x", "y", "#", "b", "b", "#">> }

ParseInputs == ShortResponses \cup LongResponses \cup MixedResponses

\* A task at the point where the service has answered `response` to the
\* request of generate_tags for a plain-text file.
ParseInit ==
    /\ data_dir = "data"
    /\ max_workers = NumWorkers
    /\ phase = "running"
    /\ run = 1
    /\ incremental_save = FALSE
    /\ tag_pool = {}
    /\ tag_counter = <<>>
    /\ tag_lock = 0
    /\ processed_files = {}
    /\ processed_articles = {}
    /\ disk = [d \in DocNames |-> NoDoc]
    /\ queue = <<2, 3>>
    /\ futures = [f \in FileIds |->
                    [NoFuture EXCEPT !.st = IF f = 1 THEN "running"
                                            ELSE "pending"]]
    /\ results = <<>>
    /\ \E response \in ParseInputs :
          task = [f \in FileIds |->
                    IF f = 1
                    THEN [NoTask EXCEPT !.pc = "txt_generate",
                                        !.content = <<"x">>,
                                        !.svc = [kind |-> "ok",
                                                 text |-> response],
                                        !.unit_calls = 1]
                    ELSE NoTask]
    /\ calls = 1
    /\ loaded = [d \in DocNames |-> NoDoc]
    /\ start_store = NoStore
    /\ merge_base = NoStore
    /\ gen_log = [c \in Contents |-> [seen |-> "no", tags |-> <<>>]]

\* generate_tags returns to process_single_file: `tags = ...` at line 363.
ParseResponse(f) ==
    /\ task[f].pc = "txt_generate"
    /\ task' = [task EXCEPT
                  ![f].tags = GenerateTags(task[f].content, task[f].svc).tags,
                  ![f].pc = "txt_generated"]
    /\ UNCHANGED <<data_dir, max_workers, phase, run, incremental_save,
                   tag_pool, tag_counter, tag_lock, processed_files,
                   processed_articles, disk, queue, futures, results, calls,
                   loaded, start_store, merge_base, gen_log>>

ParseNext == \E f \in FileIds : ParseResponse(f)

ParseSpec == ParseInit /\ [][ParseNext]_vars

\* ------------------------------------ save_tags as a function
\* The k-th of the two-letter tags the saved stores are made of.
TagLetters == <<"a", "b", "c", "x">>

TagName(k) ==
    << TagLetters[((k - 1) \div 4) + 1], TagLetters[((k - 1) % 4) + 1] >>

\* A counter of n tags, the later names inserted first, with the counts
\* given.
StoreCounter(n, counts) ==
    [k \in 1..n |-> [tag |-> TagName(n + 1 - k), n |-> counts[k]]]

\* main() at the return of process_files, with a store of up to MaxStoreTags
\* tags, each counted once or twice, and a progress record that is empty or
\* holds the .json files, the units of the corpus, or both.  start_store
\* keeps the store and the progress record of this processor.
DocInit ==
    /\ data_dir = "data"
    /\ max_workers = NumWorkers
    /\ phase = "returned"
    /\ run = 1
    /\ incremental_save = FALSE
    /\ \E n \in 0..MaxStoreTags :
          \E counts \in [1..n -> {1, 2}] :
              /\ tag_counter = StoreCounter(n, counts)
              /\ tag_pool = {TagName(k) : k \in 1..n}
    /\ tag_lock = 0
    /\ \E json \in {{f \in FileIds : Corpus[f].ext = ".json"}} :
          /\ processed_files \in {{}, {Corpus[f].path : f \in json}}
          /\ processed_articles
               \in {{}, UNION {{ArticleId(Corpus[f].name, a.index) :
                                  a \in SetOf(ReadJsonArticles(
                                                Corpus[f], ContentField))} :
                               f \in json}}
    /\ start_store = [pool |-> tag_pool, counter |-> tag_counter,
                      files |-> processed_files,
                      articles |-> processed_articles]
    /\ disk = [d \in DocNames |-> NoDoc]
    /\ queue = <<>>
    /\ futures = [f \in FileIds |->
                    [st |-> "finished",
                     result |-> [file |-> Corpus[f].name,
                                 status |-> "skipped",
                                 reason |-> "already_processed"]]]
    /\ results = <<>>
    /\ task = [f \in FileIds |-> NoTask]
    /\ calls = 0
    /\ loaded = [d \in DocNames |-> NoDoc]
    /\ merge_base = NoStore
    /\ gen_log = [c \in Contents |-> [seen |-> "no", tags |-> <<>>]]

\* A fresh processor in the same process: TagProcessor.__init__, the disk
\* as the saves left it.
DocRestart ==
    /\ phase = "done"
    /\ phase' = "init"
    /\ run' = run + 1
    /\ tag_pool' = {}
    /\ tag_counter' = <<>>
    /\ processed_files' = {}
    /\ processed_articles' = {}
    /\ UNCHANGED <<data_dir, max_workers, incremental_save, tag_lock, disk,
                   queue, futures, results, task, calls, loaded, start_store,
                   merge_base, gen_log>>

DocNext == SaveTags \/ SaveState \/ DocRestart \/ LoadState

DocSpec == DocInit /\ [][DocNext]_vars

\* ------------------------------------------------------------ properties
\* The tag lists of the units that ended in success, as the results say.
RECURSIVE ArticleSuccessTags(_)
ArticleSuccessTags(rs) ==
    IF rs = <<>> THEN <<>>
    ELSE (IF Head(rs).status = "success" THEN <<Head(rs).tags>> ELSE <<>>)
           \o ArticleSuccessTags(Tail(rs))

FileSuccessTags(r) ==
    IF r.status # "success" THEN <<>>
    ELSE IF "articles_processed" \in DOMAIN r
    THEN ArticleSuccessTags(r.results)
    ELSE <<r.tags>>

RECURSIVE SuccessTagLists(_)
SuccessTagLists(rs) ==
    IF rs = <<>> THEN <<>>
    ELSE FileSuccessTags(Head(rs)) \o SuccessTagLists(Tail(rs))

\* The same lists, in the order of the corpus instead of completion order.
RECURSIVE SuccessTagListsByFile(_)
SuccessTagListsByFile(f) ==
    IF f > Len(Corpus) THEN <<>>
    ELSE FileSuccessTags(futures[f].result) \o SuccessTagListsByFile(f + 1)

\* Number of occurrences of tag t in one list, and in a sequence of lists.
Occurrences(t, list) == Cardinality({i \in DOMAIN list : list[i] = t})

RECURSIVE TotalOccurrences(_, _)
TotalOccurrences(t, lists) ==
    IF lists = <<>> THEN 0
    ELSE Occurrences(t, Head(lists)) + TotalOccurrences(t, Tail(lists))

RECURSIVE AllTags(_)
AllTags(lists) ==
    IF lists = <<>> THEN {} ELSE SetOf(Head(lists)) \cup AllTags(Tail(lists))

\* Two counters hold the same tag-to-count mapping.
SameCounts(c1, c2) ==
    /\ CounterKeys(c1) = CounterKeys(c2)
    /\ \A t \in CounterKeys(c1) : CounterGet(c1, t) = CounterGet(c2, t)

\* Task f is inside `with self.tag_lock`.
InMerge(f) ==
    task[f].pc \in {"art_pool", "art_count", "art_save",
                    "txt_pool", "txt_count", "txt_return"}

\* Task f has merged its tag list and still holds the lock.
MergeDone(f) == task[f].pc \in {"art_save", "txt_return"}

\* process_files has returned.
Returned == phase \in {"returned", "tags_saved", "done"}

\* The documents a save of the current store and progress record writes.
FreshDocuments == SavedState(SavedTags(disk))

\* C1: idempotent resume.  When a run has loaded the three documents the
\* previous run saved at its end, and the generation stub has answered every
\* content the same way each time, the tag-pool and stats documents saved at
\* the end of this run are those the previous run saved.
C1_IdempotentResume ==
    (/\ phase = "done"
     /\ run >= 2
     /\ \A d \in DocNames : loaded[d] # NoDoc
     /\ \A c \in Contents : gen_log[c].seen # "varied")
    => /\ disk.tags = loaded.tags
       /\ disk.stats = loaded.stats

\* C2: no lost update under concurrency.  A task inside a merge section
\* holds tag_lock, so no two tasks are inside one at the same time; during
\* process_files the tag pool and the tag counter change only in a step of
\* the task that holds the lock; and once process_files has returned, every
\* count is its value at the start plus the occurrences of the tag in the tag
\* lists of the units that ended in success, and the pool is its value at the
\* start united with those tags.
C2_NoLostUpdate ==
    /\ [](\A f \in FileIds : InMerge(f) => tag_lock = f)
    /\ [][(phase = "running"
           /\ (tag_pool' # tag_pool \/ tag_counter' # tag_counter))
          => /\ tag_lock # 0
             /\ tag_lock' = tag_lock
             /\ InMerge(tag_lock)
             /\ task'[tag_lock] # task[tag_lock]]_vars
    /\ [](Returned =>
            LET lists == SuccessTagLists(results)
            IN  /\ tag_pool = start_store.pool \cup AllTags(lists)
                /\ CounterKeys(tag_counter)
                     = CounterKeys(start_store.counter) \cup AllTags(lists)
                /\ \A t \in CounterKeys(tag_counter) :
                      CounterGet(tag_counter, t)
                        = CounterGet(start_store.counter, t)
                            + TotalOccurrences(t, lists))

\* A task waits for the lock while another one is inside its merge section.
C2_Witness ==
    \E f, g \in FileIds :
        /\ f # g
        /\ InMerge(f)
        /\ task[g].pc \in {"art_lock", "txt_lock"}
        /\ SetOf(task[f].tags) \cap SetOf(task[g].tags) # {}

\* C3: merge semantics.  When a task has merged its tag list L, the pool is
\* the pool at lock acquisition united with the tags of L, every count is the
\* count at lock acquisition plus the number of occurrences of the tag in L,
\* and added_tags is the number of distinct tags of L that were not in the
\* pool before.
C3_MergeSemantics ==
    \A f \in FileIds :
        MergeDone(f) =>
            LET L == task[f].tags
            IN  /\ tag_pool = merge_base.pool \cup SetOf(L)
                /\ CounterKeys(tag_counter)
                     = CounterKeys(merge_base.counter) \cup SetOf(L)
                /\ \A t \in CounterKeys(tag_counter) :
                      CounterGet(tag_counter, t)
                        = CounterGet(merge_base.counter, t) + Occurrences(t, L)
                /\ task[f].added_tags
                     = Cardinality(SetOf(L) \ merge_base.pool)

\* A list with a repeated tag and a tag already in the pool has been merged.
C3_Witness ==
    \E f \in FileIds :
        /\ MergeDone(f)
        /\ Len(task[f].tags) > Cardinality(SetOf(task[f].tags))
        /\ SetOf(task[f].tags) \cap merge_base.pool # {}
        /\ CounterGet(tag_counter, task[f].tags[1]) >= 4

\* C4: skip before service call.  A step of process_single_article on a unit
\* whose identifier is in processed_articles appends the result skipped
\* (already_processed) and goes to the next unit, with no service call and
\* with the tag pool, the tag counter and both processed sets unchanged.
C4_SkipBeforeServiceCall ==
    [][\A f \in FileIds :
          (/\ task[f].pc = "art_check"
           /\ CurrentId(f) \in processed_articles
           /\ task'[f] # task[f])
          => /\ task'[f].results
                  = Append(task[f].results,
                           [article |-> CurrentId(f), status |-> "skipped",
                            reason |-> "already_processed"])
             /\ task'[f].pc \in {"art_check", "file_finish"}
             /\ task'[f].i = task[f].i + 1
             /\ calls' = calls
             /\ UNCHANGED <<tag_pool, tag_counter, processed_articles,
                            processed_files>>
             /\ disk' = disk]_vars

\* A unit has been skipped by process_single_article.
C4_Witness ==
    \E f \in FileIds :
        \E k \in DOMAIN task[f].results :
            /\ task[f].results[k].status = "skipped"
            /\ calls > 0

\* The identifiers of the units of JSON-array files for which generate_tags
\* returned in this run, with tags or with none.
CompletedArticles ==
    UNION { { futures[f].result.results[k].article :
                k \in { j \in DOMAIN futures[f].result.results :
                          \/ futures[f].result.results[j].status = "success"
                          \/ futures[f].result.results[j].reason
                               = "no_tags_generated" } } :
            f \in { g \in FileIds :
                      "articles_processed" \in DOMAIN futures[g].result } }

\* The identifiers of all units of the JSON-array files of the corpus.
ArticleIds ==
    UNION { { ArticleId(Corpus[f].name,
                        ReadJsonArticles(Corpus[f], ContentField)[k].index) :
                k \in DOMAIN ReadJsonArticles(Corpus[f], ContentField) } :
            f \in { g \in FileIds : Corpus[g].ext = ".json" } }

\* C5: Progress Record invariant, for the units of JSON-array files.  At the
\* end of a run an identifier is in processed_articles if and only if a prior
\* run recorded it or generate_tags completed for the unit in this run, with
\* tags (success) or without (permanent failure).
C5_ProgressRecord ==
    phase = "done" =>
        \A u \in ArticleIds :
            u \in processed_articles
              <=> \/ (loaded.progress # NoDoc
                      /\ u \in SetOf(Load(loaded.progress).processed_articles))
                  \/ u \in CompletedArticles

\* C6: incremental persistence.  With incremental save on, the step in which
\* a task leaves the merge section of a successful unit leaves on disk the
\* three documents of the store and progress record as they are; with it off,
\* no step changes a document while process_files runs.
C6_IncrementalPersistence ==
    [][/\ \A f \in FileIds :
            (incremental_save /\ MergeDone(f) /\ task'[f] # task[f])
            => disk' = FreshDocuments
       /\ (~incremental_save /\ phase = "running") => disk' = disk]_vars

\* The store reached by merging the lists, in their order, into a store.
RECURSIVE MergeAll(_, _)
MergeAll(store, lists) ==
    IF lists = <<>> THEN store
    ELSE MergeAll([pool |-> PoolUpdate(store.pool, Head(lists)),
                   counter |-> CounterUpdate(store.counter, Head(lists))],
                  Tail(lists))

\* C7: merge commutativity.  Whatever the order in which the workers merged
\* the tag lists of the successful units, once process_files has returned the
\* pool and the counts are those of merging the same lists in the order of the
\* corpus.
C7_MergeCommutativity ==
    Returned =>
        LET canonical == MergeAll(start_store, SuccessTagListsByFile(1))
        IN  /\ tag_pool = canonical.pool
            /\ SameCounts(tag_counter, canonical.counter)

\* Two different tag lists were merged, and in completion order they are not
\* in the order of the corpus.
C7_Witness ==
    /\ Returned
    /\ SuccessTagLists(results) # SuccessTagListsByFile(1)
    /\ Len(SuccessTagLists(results)) >= 3

\* C8: growth-only store.  From the end of load_state to the end of the run,
\* no step removes a tag from the pool or from the counter, or lowers a count.
C8_GrowthOnly ==
    [][(phase \in {"loaded", "running", "returned", "tags_saved"})
       => (/\ tag_pool \subseteq tag_pool'
           /\ CounterKeys(tag_counter) \subseteq CounterKeys(tag_counter')
           /\ \A t \in CounterKeys(tag_counter) :
                 CounterGet(tag_counter, t) <= CounterGet(tag_counter', t))
      ]_vars

\* A list with a new tag was merged into a store that already held tags and
\* counts, in a run that had loaded them from the documents.
C8_Witness ==
    \E f \in FileIds :
        /\ MergeDone(f)
        /\ start_store.pool # {}
        /\ merge_base.pool # {}
        /\ SetOf(task[f].tags) \ merge_base.pool # {}

\* C9: Aggregation Store invariant.  Once load_state has completed, in every
\* state in which no task is inside a merge section, the pool is the key set
\* of the counter and every count is at least 1.
C9_StoreInvariant ==
    (phase # "init" /\ tag_lock = 0)
    => /\ tag_pool = CounterKeys(tag_counter)
       /\ \A i \in DOMAIN tag_counter : tag_counter[i].n >= 1

\* C10: generation failures degrade, never propagate.  When the service call
\* of a unit raised, whatever the class, generate_tags returns the empty list
\* and raises nothing, and its step records failed (no_tags_generated) for the
\* unit after that one call, without another call; no step of the unit up to
\* there changes the tag pool or the tag counter.
C10_FailuresDegrade ==
    [][\A f \in FileIds :
          /\ (/\ task[f].pc \in {"art_generate", "txt_generate"}
              /\ task[f].svc.kind \in FailureKinds
              /\ task'[f] # task[f])
             => /\ GenerateTags(task[f].content, task[f].svc)
                     = [raised |-> FALSE, tags |-> <<>>]
                /\ task[f].unit_calls = 1
                /\ calls' = calls
                /\ IF task[f].pc = "art_generate"
                   THEN /\ task'[f].results
                             = Append(task[f].results,
                                      [article |-> CurrentId(f),
                                       status |-> "failed",
                                       reason |-> "no_tags_generated"])
                        /\ task'[f].pc \in {"art_check", "file_finish"}
                   ELSE futures'[f]
                          = [st |-> "finished",
                             result |-> [file |-> Corpus[f].name,
                                         status |-> "failed",
                                         reason |-> "no_tags_generated"]]
          /\ (/\ task[f].pc \in {"art_check", "art_call", "art_generate",
                                 "txt_call", "txt_generate"}
              /\ task'[f] # task[f])
             => (tag_pool' = tag_pool /\ tag_counter' = tag_counter)]_vars

\* Every failure class has been raised to a unit whose one call it was, in a
\* run whose store already holds tags.
C10_Witness ==
    /\ tag_pool # {}
    /\ \E f \in FileIds :
          /\ task[f].pc = "art_generate"
          /\ task[f].svc.kind = "RateLimitError"
          /\ task[f].unit_calls = 1
    /\ \E f \in FileIds :
          /\ task[f].pc = "txt_generate"
          /\ task[f].svc.kind = "AuthenticationError"

\* The positions of the elements of a JSON array that are mappings with a
\* resolvable content field whose text is empty once stripped.
EmptyMembers(file) ==
    IF file.ext # ".json" \/ file.data.type # "array" THEN {}
    ELSE { i \in DOMAIN file.data.items :
             /\ file.data.items[i].type = "object"
             /\ ResolveField(file.data.items[i].fields, ContentField) # ""
             /\ Strip(file.data.items[i].fields[
                        ResolveField(file.data.items[i].fields, ContentField)],
                      Whitespace) = <<>> }

\* The units of the corpus whose extracted text is not empty: the plain-text
\* files and the elements of JSON arrays with text.
UnitsWithText ==
    { <<f, 0>> : f \in { g \in FileIds :
                           /\ Corpus[g].ext # ".json"
                           /\ Strip(Corpus[g].data, Whitespace) # <<>> } }
      \cup UNION { { <<f, a.index + 1>> :
                       a \in SetOf(ReadJsonArticles(Corpus[f], ContentField)) } :
                   f \in { g \in FileIds : Corpus[g].ext = ".json" } }

\* The task of file f has completed without skipping the file.
Processed(f) ==
    /\ futures[f].st = "finished"
    /\ futures[f].result.status # "skipped"

\* C11: empty-content guard.  Once process_files has returned, every unit
\* whose extracted text is empty has a result failed (empty_content): the
\* result of the file for an empty plain-text file, an entry of the file's
\* results for an empty element of a JSON array; and the run has made no more
\* service calls than there are units with text.
C11_EmptyContentGuard ==
    Returned =>
        /\ calls <= Cardinality(UnitsWithText)
        /\ \A f \in FileIds :
              Processed(f) =>
                 /\ (Corpus[f].ext # ".json"
                       /\ Strip(Corpus[f].data, Whitespace) = <<>>)
                    => futures[f].result
                         = [file |-> Corpus[f].name, status |-> "failed",
                            reason |-> "empty_content"]
                 /\ \A i \in EmptyMembers(Corpus[f]) :
                       /\ "results" \in DOMAIN futures[f].result
                       /\ \E k \in DOMAIN futures[f].result.results :
                             futures[f].result.results[k]
                               = [article |-> ArticleId(Corpus[f].name, i - 1),
                                  status |-> "failed",
                                  reason |-> "empty_content"]

\* The positions of the elements of a JSON array that are mappings with a
\* resolvable content field whose text is not empty once stripped.
TextMembers(file) ==
    IF file.ext # ".json" \/ file.data.type # "array" THEN {}
    ELSE { i \in DOMAIN file.data.items :
             /\ file.data.items[i].type = "object"
             /\ \E k \in DOMAIN FallbackFields :
                   FallbackFields[k] \in DOMAIN file.data.items[i].fields
             /\ i \notin EmptyMembers(file) }

\* The number of units extraction yields for a file.
UnitCount(file) ==
    IF file.ext = ".json" THEN Cardinality(TextMembers(file))
    ELSE IF Strip(file.data, Whitespace) # <<>> THEN 1 ELSE 0

\* C12, in the specification's words: once process_files has returned, the result of every file
\* that was not skipped is success when extraction yielded at least one unit,
\* and failed when it yielded none, whether the file is a JSON array or plain
\* text.
C12_FileResultAsStated ==
    Returned =>
        \A f \in FileIds :
            Processed(f) =>
                futures[f].result.status
                  = IF UnitCount(Corpus[f]) >= 1 THEN "success" ELSE "failed"

\* C12: file-level result, per file kind.  The result of a .json file that was not
\* skipped is success, with the counts of its units, whenever extraction
\* yielded at least one unit, even when every unit failed, and failed
\* (no_valid_articles) only when it yielded none.  The result of a plain-text
\* file is the result of its one unit: failed (empty_content) when the text is
\* empty, else success with a non-empty tag list or failed
\* (no_tags_generated).
C12_FileResult ==
    Returned =>
        \A f \in FileIds :
            Processed(f) =>
                LET r == futures[f].result
                    file == Corpus[f]
                IN  IF file.ext = ".json"
                    THEN IF UnitCount(file) >= 1
                         THEN /\ r.status = "success"
                              /\ r.file = file.name
                              /\ r.articles_processed = UnitCount(file)
                              /\ Len(r.results) = UnitCount(file)
                              /\ r.articles_success + r.articles_failed
                                   + r.articles_skipped = UnitCount(file)
                         ELSE r = [file |-> file.name, status |-> "failed",
                                   reason |-> "no_valid_articles"]
                    ELSE IF UnitCount(file) = 0
                         THEN r = [file |-> file.name, status |-> "failed",
                                   reason |-> "empty_content"]
                         ELSE \/ r = [file |-> file.name, status |-> "failed",
                                      reason |-> "no_tags_generated"]
                              \/ /\ r.status = "success"
                                 /\ r.file = file.name
                                 /\ r.tags # <<>>

\* A .json file all of whose units failed has the result success, next to a
\* plain-text file whose one unit failed.
C12_Witness ==
    /\ Returned
    /\ \E f \in FileIds :
          /\ Processed(f)
          /\ Corpus[f].ext = ".json"
          /\ futures[f].result.status = "success"
          /\ futures[f].result.articles_success = 0
          /\ futures[f].result.articles_failed = 2
    /\ \E f \in FileIds :
          /\ Corpus[f].ext = ".txt"
          /\ futures[f].result.status = "failed"

\* generate_tags has returned to task f with the tags of its response.
Parsed(f) == task[f].pc = "txt_generated"

Letters == {"a", "b", "c", "x", "y"}

\* A non-empty text of letters.
IsWord(s) == s # <<>> /\ \A i \in DOMAIN s : s[i] \in Letters

\* A segment  text#span#  : a word outside, then a word enclosed in '#'.
IsTextThenSpan(segment) ==
    LET t == Strip(segment, Whitespace)
        i == Find(t, "#")
    IN  /\ i > 1
        /\ Len(t) > i + 1
        /\ t[Len(t)] = "#"
        /\ IsWord(SubSeq(t, 1, i - 1))
        /\ IsWord(SubSeq(t, i + 1, Len(t) - 1))

OutsideText(segment) ==
    LET t == Strip(segment, Whitespace)
    IN  SubSeq(t, 1, Find(t, "#") - 1)

SpanText(segment) ==
    LET t == Strip(segment, Whitespace)
    IN  SubSeq(t, Find(t, "#") + 1, Len(t) - 1)

\* A response whose segments are words or text#span#, with one of the latter.
IsMixed(response) ==
    LET segments == Split(response, ",")
    IN  /\ \A k \in DOMAIN segments :
              \/ IsWord(Strip(segments[k], Whitespace))
              \/ IsTextThenSpan(segments[k])
        /\ \E k \in DOMAIN segments : IsTextThenSpan(segments[k])

\* The candidates of such a response, long enough to be tags: in their order
\* of appearance, or with the span of a segment before its outside text.
RECURSIVE MixedCandidates(_, _)
MixedCandidates(segments, span_first) ==
    IF segments = <<>> THEN <<>>
    ELSE LET seg == Head(segments)
             long(w) == IF Len(w) >= MinTagLen THEN <<w>> ELSE <<>>
         IN  (IF IsTextThenSpan(seg)
              THEN IF span_first
                   THEN long(SpanText(seg)) \o long(OutsideText(seg))
                   ELSE long(OutsideText(seg)) \o long(SpanText(seg))
              ELSE long(Strip(seg, Whitespace)))
               \o MixedCandidates(Tail(segments), span_first)

\* The first n elements of a sequence.
Take(s, n) == [i \in 1..(IF Len(s) < n THEN Len(s) ELSE n) |-> s[i]]

\* C13, in the specification's words: for a response with a segment text#span#, the tags are the
\* candidates in their order of appearance in the response:  xy#bb#, ab
\* gives  xy, bb, ab.
C13_OrderAsStated ==
    \A f \in FileIds :
        (Parsed(f) /\ IsMixed(task[f].svc.text))
        => task[f].tags
             = Take(MixedCandidates(Split(task[f].svc.text, ","), FALSE),
                    MaxTags)

\* C13: parser order for a segment with '#'.  For a response with a
\* segment text#span#, the '#'-enclosed span of a segment comes before the
\* text outside it, the segments staying in their order:  xy#bb#, ab  gives
\* bb, xy, ab.
C13_ParserOrder ==
    \A f \in FileIds :
        (Parsed(f) /\ IsMixed(task[f].svc.text))
        => task[f].tags
             = Take(MixedCandidates(Split(task[f].svc.text, ","), TRUE),
                    MaxTags)

\* The response  xy#bb#, ab  has been parsed to  bb, xy, ab.
C13_Witness ==
    \E f \in FileIds :
        /\ Parsed(f)
        /\ task[f].svc.text
             = <<"x", "y", "#", "b", "b", "#", ",", " ", "a", "b">>
        /\ task[f].tags = << <<"b", "b">>, <<"x", "y">>, <<"a", "b">> >>

\* The candidates of a response without '#' that survive the cleaning: each
\* segment stripped of whitespace, then of punctuation, kept when it has
\* MinTagLen characters before and after the second stripping.
RECURSIVE Survivors(_)
Survivors(segments) ==
    IF segments = <<>> THEN <<>>
    ELSE LET t == Strip(Head(segments), Whitespace)
             u == Strip(t, Punctuation)
         IN  (IF Len(t) >= MinTagLen /\ Len(u) >= MinTagLen
              THEN <<u>> ELSE <<>>) \o Survivors(Tail(segments))

\* C14: parser output bounds.  For every response, generate_tags returns at
\* most MaxTags tags, each of at least MinTagLen characters once whitespace
\* and surrounding punctuation are trimmed: no tag has whitespace or a
\* punctuation mark at either end.  For a response without '#' the tags are the
\* first MaxTags surviving candidates in the order of the response, a
\* repeated candidate staying repeated and one-character candidates dropped:
\* a, bb, c  gives  bb.
C14_ParserBounds ==
    \A f \in FileIds :
        Parsed(f) =>
            LET response == task[f].svc.text
                tags == task[f].tags
            IN  /\ Len(tags) <= MaxTags
                /\ \A k \in DOMAIN tags :
                      /\ Len(tags[k]) >= MinTagLen
                      /\ tags[k] = Strip(tags[k], Whitespace \cup Punctuation)
                /\ Find(response, "#") = 0
                   => tags = Take(Survivors(Split(Strip(response, Whitespace),
                                                  ",")), MaxTags)
                /\ response = <<"a", ",", " ", "b", "b", ",", " ", "c">>
                   => tags = << <<"b", "b">> >>

\* The positions in TextMembers(file), ascending.
RECURSIVE Ascending(_)
Ascending(S) ==
    IF S = {} THEN <<>>
    ELSE LET m == CHOOSE m \in S : \A o \in S : m <= o
         IN  <<m>> \o Ascending(S \ {m})

\* Task f is inside the loop of process_single_file over its articles.
InArticles(f) ==
    task[f].pc \in {"art_check", "art_call", "art_generate", "art_lock",
                    "art_pool", "art_count", "art_save", "art_mark",
                    "file_finish"}

\* C15: JSON-array extraction.  The units of a JSON-array file are its
\* elements that are mappings with a resolvable content field whose text is
\* not empty, in the order of the array, each with its position in the array
\* (from 0) as index and its stripped text as content; every result of a unit
\* carries the identifier made of the file's basename and that index.  The
\* elements in between are skipped and do not renumber the later ones.
C15_ExtractionIndexStable ==
    \A f \in FileIds :
        InArticles(f) =>
            LET file == Corpus[f]
                members == Ascending(TextMembers(file))
            IN  /\ Len(task[f].articles) = Len(members)
                /\ \A k \in DOMAIN members :
                      /\ task[f].articles[k].index = members[k] - 1
                      /\ task[f].articles[k].content
                           = Strip(file.data.items[members[k]].fields[
                                     ResolveField(
                                       file.data.items[members[k]].fields,
                                       ContentField)], Whitespace)
                /\ Len(task[f].results) <= Len(members)
                /\ \A k \in DOMAIN task[f].results :
                      task[f].results[k].article
                        = ArticleId(file.name, members[k] - 1)

\* The array whose element 1 has no content field has yielded the units #0
\* and #2, and both have a result.
C15_Witness ==
    \E f \in FileIds :
        /\ task[f].pc = "file_finish"
        /\ Len(Corpus[f].data.items) >= 3
        /\ Corpus[f].data.items[2].type = "object"
        /\ ResolveField(Corpus[f].data.items[2].fields, ContentField) = ""
        /\ Len(task[f].results) = 2
        /\ task[f].results[1].article = ArticleId(Corpus[f].name, 0)
        /\ task[f].results[2].article = ArticleId(Corpus[f].name, 2)

\* A .json file holding a single object with a content field that resolves to
\* a non-empty text.
IsSingleObject(file) ==
    /\ file.ext = ".json"
    /\ file.data.type = "object"
    /\ ResolveField(file.data.fields, ContentField) # ""
    /\ Strip(file.data.fields[ResolveField(file.data.fields, ContentField)],
             Whitespace) # <<>>

\* C16: single-object JSON input.  Once process_files has returned, a .json
\* file that holds a single object with a resolvable content field, and was
\* not skipped, has been processed as one unit with that field's text: the
\* service was called for it, and its result is success or failed
\* (no_tags_generated).
C16_SingleObjectJson ==
    Returned =>
        \A f \in FileIds :
            (Processed(f) /\ IsSingleObject(Corpus[f]))
            => /\ calls >= 1
               /\ \/ futures[f].result.status = "success"
                  \/ futures[f].result.reason = "no_tags_generated"

\* The sum of the counts of a counter.
RECURSIVE SumOfCounts(_)
SumOfCounts(c) ==
    IF c = <<>> THEN 0 ELSE Head(c).n + SumOfCounts(Tail(c))

\* C17: persisted documents.  After save_tags the tag-pool document lists the
\* tags of the pool in ascending order, each once; in the stats document
\* total_tags is the number of tags of the pool, total_occurrences is the sum
\* of the counts, tag_counts holds every tag of the counter once, with its
\* count, in non-increasing order of count, and top_tags is the first
\* min(TopN, number of tags) entries of tag_counts.
C17_PersistedDocuments ==
    phase \in {"tags_saved", "done"} =>
        LET tags == Load(disk.tags)
            stats == Load(disk.stats)
        IN  /\ SetOf(tags) = tag_pool
            /\ Len(tags) = Cardinality(tag_pool)
            /\ \A i, j \in DOMAIN tags : i < j => StrLess(tags[i], tags[j])
            /\ stats.total_tags = Cardinality(tag_pool)
            /\ stats.total_occurrences = SumOfCounts(tag_counter)
            /\ SetOf(stats.tag_counts) = SetOf(tag_counter)
            /\ Len(stats.tag_counts) = Len(tag_counter)
            /\ \A i, j \in DOMAIN stats.tag_counts :
                  i < j => stats.tag_counts[i].n >= stats.tag_counts[j].n
            /\ stats.top_tags = Take(stats.tag_counts, TopN)

\* A store of more than TopN tags with different counts has been saved.
C17_Witness ==
    /\ phase = "tags_saved"
    /\ Cardinality(tag_pool) > TopN
    /\ Len(Load(disk.stats).top_tags) = TopN
    /\ Load(disk.stats).total_occurrences > Cardinality(tag_pool)
    /\ tag_counter[1].n = 1

\* The unit identifiers in the progress document on disk.
PersistedArticles ==
    IF disk.progress = NoDoc THEN {}
    ELSE SetOf(Load(disk.progress).processed_articles)

\* C18: crash consistency of incremental save.  With incremental save on, when
\* the incremental save of a unit has completed, the progress document on disk
\* holds the identifier of every unit of that task whose tags are counted in
\* the stats document on disk: the unit just merged and saved, and the units
\* of the task that succeeded before it.
C18_CrashConsistency ==
    \A f \in FileIds :
        (incremental_save /\ task[f].pc = "art_mark")
        => /\ CurrentId(f) \in PersistedArticles
           /\ \A k \in DOMAIN task[f].results :
                 task[f].results[k].status = "success"
                 => task[f].results[k].article \in PersistedArticles

\* The files whose result lists the results of their units.
FilesWithUnits ==
    { f \in FileIds : "results" \in DOMAIN futures[f].result }

\* The places <<file, position>> of the unit results with status success.
MergedUnits ==
    UNION { { <<f, k>> : k \in { j \in DOMAIN futures[f].result.results :
                                   futures[f].result.results[j].status
                                     = "success" } } :
            f \in FilesWithUnits }

\* C19: atomic check-then-insert on the processed-unit set.  For every
\* interleaving of the workers, once process_files has returned no unit
\* identifier has been sent to the service and merged twice in the run: no two
\* unit results with status success carry the same identifier.
C19_MergedAtMostOnce ==
    Returned =>
        \A u, v \in MergedUnits :
            u # v => futures[u[1]].result.results[u[2]].article
                       # futures[v[1]].result.results[v[2]].article

\* C20: plain-text files are marked processed.  Once process_single_file has
\* returned success for a file that is not a .json file, the path of the file
\* is in processed_files, and at the end of the run it is in the progress
\* document on disk.
C20_TextFileMarked ==
    \A f \in FileIds :
        (/\ futures[f].st = "finished"
         /\ Corpus[f].ext # ".json"
         /\ futures[f].result.status = "success")
        => /\ Corpus[f].path \in processed_files
           /\ phase = "done"
              => Corpus[f].path \in SetOf(Load(disk.progress).processed_files)

\* The identifiers of the units read_json_articles extracts from file f.
FileArticleIds(f) ==
    { ArticleId(Corpus[f].name, a.index) :
        a \in SetOf(ReadJsonArticles(Corpus[f], ContentField)) }

\* The task of file f has returned skipped (already_processed) for the file.
FileSkipped(f) ==
    /\ futures[f].st = "finished"
    /\ futures[f].result.status = "skipped"

\* C21: resume is the recovery path for failed units.  A unit of a JSON-array
\* file is skipped only if its own identifier is in processed_articles: when
\* the task of a file returns skipped for the whole file, the identifier of
\* every unit of the file is in processed_articles, so that a unit that ended
\* in failed in the run before is not skipped but sent to generate_tags again;
\* and a unit result skipped carries an identifier of processed_articles.
C21_ResumeRetriesFailedUnits ==
    \A f \in FileIds :
        /\ FileSkipped(f) => FileArticleIds(f) \subseteq processed_articles
        /\ \A k \in DOMAIN task[f].results :
              task[f].results[k].status = "skipped"
              => task[f].results[k].article \in processed_articles

\* The units of the corpus as find_article_files and read_json_articles
\* discover them: <<file, index>> for every article of every .json file.
DiscoveredUnits ==
    UNION { { <<f, a.index>> :
                a \in SetOf(ReadJsonArticles(Corpus[f], ContentField)) } :
            f \in { g \in FileIds : Corpus[g].ext = ".json" } }

\* The unit identifiers load_state found in the progress document.
LoadedArticles ==
    IF loaded.progress = NoDoc THEN {}
    ELSE SetOf(Load(loaded.progress).processed_articles)

\* C22: unit identifiers are unique within a corpus.  Once process_files has
\* returned, any two distinct units of the files found under the data
\* directory, files of the same basename in different sub-directories
\* included, have different identifiers, and every unit result skipped is for
\* an identifier that was in the progress record when the run started: no
\* unit is skipped because another unit was processed in the run.
C22_UniqueIdentifiers ==
    Returned =>
        /\ \A u, v \in DiscoveredUnits :
              u # v => ArticleId(Corpus[u[1]].name, u[2])
                         # ArticleId(Corpus[v[1]].name, v[2])
        /\ \A f \in FilesWithUnits :
              \A k \in DOMAIN futures[f].result.results :
                  futures[f].result.results[k].status = "skipped"
                  => futures[f].result.results[k].article \in LoadedArticles

\* process_files has returned one result per submitted file: the results
\* list holds the result of every future, each as many times as there are
\* futures with that result, each with status success, failed or skipped, and
\* failed for a task that ended with an exception.
RunComplete ==
    /\ phase = "returned"
    /\ Len(results) = Len(Corpus)
    /\ \A f \in FileIds :
          /\ futures[f].st \in {"finished", "raised"}
          /\ futures[f].result.status \in {"success", "failed", "skipped"}
          /\ futures[f].st = "raised" => futures[f].result.status = "failed"
          /\ Cardinality({k \in DOMAIN results :
                            results[k] = futures[f].result})
               = Cardinality({g \in FileIds :
                               futures[g].result = futures[f].result})

\* C23: run completion.  With every service call returning or raising,
\* process_files, once called with 1 to NumWorkers threads, returns, with
\* exactly one result per submitted file, each with status success, failed or
\* skipped; a task that ends with an exception has a failed result, and the
\* other files are processed and collected all the same.
C23_RunCompletion == (phase = "running") ~> RunComplete

\* process_files has returned with one worker thread, after the task of one
\* file ended with an exception and the task of a later file ended in
\* success.
C23_Witness ==
    /\ RunComplete
    /\ max_workers = 1
    /\ \E f, g \in FileIds :
          /\ f < g
          /\ futures[f].st = "raised"
          /\ futures[g].st = "finished"
          /\ futures[g].result.status = "success"

\* C24: per-file sequential fan-out.  The units of a JSON-array file are
\* processed one at a time, in ascending order of array index, inside the one
\* task of the file: the unit the task is at is the one after the units that
\* have their result, so that while a service call is in flight for a unit
\* every earlier unit of the file has ended and no later one has begun, and
\* at most one call is made for it; the results are in the order of the
\* articles.  The counts of the file's result add up:
\* articles_success + articles_failed + articles_skipped
\* = articles_processed = the number of units extracted.
C24_SequentialFanOut ==
    \A f \in FileIds :
        /\ InArticles(f) =>
              /\ task[f].i = Len(task[f].results) + 1
              /\ task[f].unit_calls <= 1
              /\ \A k \in DOMAIN task[f].results :
                    /\ task[f].results[k].article
                         = ArticleId(Corpus[f].name, task[f].articles[k].index)
                    /\ task[f].results[k].status
                         \in {"success", "failed", "skipped"}
              /\ \A k \in 1..(Len(task[f].articles) - 1) :
                    task[f].articles[k].index < task[f].articles[k + 1].index
        /\ f \in FilesWithUnits =>
              LET r == futures[f].result
              IN  /\ r.articles_success + r.articles_failed
                       + r.articles_skipped = r.articles_processed
                  /\ r.articles_processed = UnitCount(Corpus[f])
                  /\ Len(r.results) = r.articles_processed

\* The task of a file of two units has returned its counts: the first unit
\* was skipped and the second was sent to the service and failed.
C24_Witness ==
    \E f \in FilesWithUnits :
        /\ futures[f].result.articles_processed = 2
        /\ futures[f].result.results[1].status = "skipped"
        /\ futures[f].result.results[2].reason = "no_tags_generated"
        /\ futures[f].result.articles_skipped = 1
        /\ futures[f].result.articles_failed = 1

\* C25: save/load round trip.  When a processor has called save_tags and
\* save_state, and a fresh processor has called load_state with the same
\* output name, the fresh processor has the same distinct-tag set, the same
\* tag-to-count mapping, with one entry per tag, the same processed-file set
\* and the same processed-unit set as the processor that saved.
C25_SaveLoadRoundTrip ==
    phase = "loaded" =>
        /\ tag_pool = start_store.pool
        /\ SameCounts(tag_counter, start_store.counter)
        /\ Len(tag_counter) = Cardinality(CounterKeys(tag_counter))
        /\ processed_files = start_store.files
        /\ processed_articles = start_store.articles

\* A fresh processor has loaded a store of more than TopN tags, whose
\* counter comes back in another order than it was built in, and a progress
\* record with files and units.
C25_Witness ==
    /\ phase = "loaded"
    /\ run = 2
    /\ Cardinality(tag_pool) > TopN
    /\ tag_counter # start_store.counter
    /\ processed_files # {}
    /\ processed_articles # {}

====
